---- MODULE Spec2Model ----
(***************************************************************************)
(* Model of climada.engine.uncertainty (UncVar, Uncertainty, UncImpact):   *)
(* one UncImpact object, its sample (params), its metric tables and its    *)
(* sensitivity result, under any sequence of make_sample,                  *)
(* calc_impact_distribution and calc_impact_sensitivity calls; and of      *)
(* climada.entity.disc_rates.base (DiscRates): one DiscRates object under  *)
(* any sequence of append, clear and check calls, with the numpy arrays    *)
(* its attributes and those of the appended objects refer to.              *)
(*                                                                         *)
(* External collaborators (SALib designs and analyses, the Impact          *)
(* computation, the pathos pool, scipy distributions) are modelled by the  *)
(* interface the code uses: a design is a matrix of quantile levels of the *)
(* shape the method returns, a distribution is its quantile function, the  *)
(* generators and the impact computation echo their inputs.                *)
(***************************************************************************)
EXTENDS Integers, Sequences, FiniteSets, TLC

VARIABLES unc_vars, pool, params, problem, aai, aai_agg, freq_curve, eai_exp,
          at_event, rp, calc_eai_exp, calc_at_event, sensitivity,
          sampling_method, n_samples, attrs, last, hist, ncalls,
          heap, disc_rates, passed, disc_last, disc_ncalls, chunk

\* the UncImpact object and the history of the calls made on it
impact_vars == <<unc_vars, pool, params, problem, aai, aai_agg, freq_curve,
                 eai_exp, at_event, rp, calc_eai_exp, calc_at_event,
                 sensitivity, sampling_method, n_samples, attrs, last, hist,
                 ncalls>>

\* the DiscRates object, the arrays, and the history of the calls made on it
disc_vars == <<heap, disc_rates, passed, disc_last, disc_ncalls>>

\* chunk: the chunk size computation of one calc_impact_distribution call
vars == <<impact_vars, disc_vars, chunk>>

(* ------------------------------ bounds --------------------------------- *)

\* largest N passed to make_sample
MaxN == 2
\* largest number of calls made on the object
MaxCalls == 3
\* number of exposure points of the synthetic impact (columns of eai_exp)
NumExp == 2
\* number of events of the synthetic impact (columns of at_event)
NumEvents == 3

(* --------------------------- generic helpers --------------------------- *)

Min(a, b) == IF a <= b THEN a ELSE b

Range(s) == {s[i] : i \in 1..Len(s)}

RECURSIVE SumSeq(_)
SumSeq(s) == IF s = <<>> THEN 0 ELSE Head(s) + SumSeq(Tail(s))

\* position of x in the sequence s (0 when absent)
IndexOf(s, x) ==
    IF \E i \in 1..Len(s) : s[i] = x
    THEN CHOOSE i \in 1..Len(s) : s[i] = x /\ \A j \in 1..(i - 1) : s[j] # x
    ELSE 0

(* A python dict is a sequence of [k, v] entries in insertion order.       *)
DictKeys(d) == [i \in 1..Len(d) |-> d[i].k]

DictHas(d, key) == \E i \in 1..Len(d) : d[i].k = key

DictGet(d, key) == d[IndexOf(DictKeys(d), key)].v

\* d[key] = val: an existing key keeps its position, a new key goes last
DictSet(d, key, val) ==
    IF DictHas(d, key)
    THEN [i \in 1..Len(d) |-> IF d[i].k = key THEN [k |-> key, v |-> val] ELSE d[i]]
    ELSE Append(d, [k |-> key, v |-> val])

\* d.update(e)
RECURSIVE DictUpdate(_, _)
DictUpdate(d, e) ==
    IF e = <<>> THEN d
    ELSE DictUpdate(DictSet(d, Head(e).k, Head(e).v), Tail(e))

(* A pandas DataFrame: its column labels and its rows, in order.           *)
DataFrame(rows, columns) == [columns |-> columns, rows |-> rows]

\* pd.DataFrame()
EmptyDataFrame == DataFrame(<<>>, <<>>)

\* DataFrame.empty: some axis has length 0
DfEmpty(df) == Len(df.rows) = 0 \/ Len(df.columns) = 0

\* DataFrame.shape[0]
Shape0(df) == Len(df.rows)

\* df[label].to_numpy(): the column with this label, in row order
Column(df, label) ==
    [i \in 1..Len(df.rows) |-> df.rows[i][IndexOf(df.columns, label)]]

(* Exceptions: the exception type, the operation its message tells the     *)
(* caller to run first ("none" when it names none) and the sample row      *)
(* index it carries (0 when it carries none).                              *)
Err(type, names, row) == [type |-> type, names |-> names, row |-> row]

NoErr == Err("none", "none", 0)

(* ------------------------------- UncVar -------------------------------- *)

\* a scipy.stats distribution, by its quantile function ppf(u) = loc + scale*u
Distr(loc, scale) == [loc |-> loc, scale |-> scale]

ppf(distr, u) == distr.loc + distr.scale * u

\* UncVar(unc_var, distr_dict): labels = list(distr_dict.keys())
UncVar(distr_dict) == [labels |-> DictKeys(distr_dict), distr_dict |-> distr_dict]

\* a fixed Exposures / ImpactFuncSet / Hazard wrapped as UncVar(lambda: obj, {})
FixedVar == UncVar(<<>>)

\* UncVar.eval_unc_var(kwargs): the generator echoes its keyword arguments
eval_unc_var(kwargs) == kwargs

(* The role variables an UncImpact is constructed with.                    *)
UncVarSets ==
    { [exp  |-> UncVar(<<[k |-> "b", v |-> Distr(10, 2)]>>),
       impf |-> FixedVar,
       haz  |-> UncVar(<<[k |-> "a", v |-> Distr(0, 1)]>>)],
      [exp  |-> UncVar(<<[k |-> "a", v |-> Distr(0, 1)]>>),
       impf |-> UncVar(<<[k |-> "b", v |-> Distr(10, 2)]>>),
       haz  |-> UncVar(<<[k |-> "a", v |-> Distr(5, 3)]>>)] }

(* A pathos pool: its cpu count, and whether its map() hands unknown       *)
(* keyword arguments on to the underlying Pool.map (which rejects them) or *)
(* drops them; both library behaviours exist.                              *)
NoPool == [ncpus |-> 0, forwards_kwds |-> FALSE]

Pools == {NoPool} \cup [ncpus : {2}, forwards_kwds : BOOLEAN]

(* ----------------------------- Uncertainty ----------------------------- *)

\* (mutant) the distributions merged hazard first
distr_dict_haz_first(uv) ==
    DictUpdate(DictUpdate(DictUpdate(<<>>, uv.haz.distr_dict),
                          uv.impf.distr_dict),
               uv.exp.distr_dict)

\* Uncertainty.distr_dict: exp, impf, haz distributions merged in this order
distr_dict(uv) ==
    DictUpdate(DictUpdate(DictUpdate(<<>>, uv.exp.distr_dict),
                          uv.impf.distr_dict),
               uv.haz.distr_dict)

\* (mutant) the labels of the three variables one after the other
param_labels_per_role(uv) == uv.exp.labels \o uv.impf.labels \o uv.haz.labels

\* Uncertainty.param_labels
param_labels(uv) == DictKeys(distr_dict(uv))

\* Uncertainty.n_runs
n_runs(p) == Shape0(p)

(* SALib.sample: the registered designs and the number of rows each        *)
(* returns for N and D = num_vars.                                         *)
SamplingMethods == {"saltelli"}

\* saltelli with calc_second_order=True (its default): N * (2D + 2) rows
SampleRows(method, N, D) == N * (2 * D + 2)

\* <method>.sample(problem, N): a matrix of quantile levels
SalibSample(method, prob, N) ==
    [i \in 1..SampleRows(method, N, prob.num_vars) |->
        [j \in 1..prob.num_vars |-> i + j]]

\* the problem descriptor built by _make_uniform_base_sample
MakeProblem(labels) ==
    [num_vars |-> Len(labels),
     names    |-> labels,
     bounds   |-> [j \in 1..Len(labels) |-> <<0, 1>>]]

\* self.problem = {} of __init__
EmptyProblem == [num_vars |-> 0, names |-> <<>>, bounds |-> <<>>]

\* df_params[param] = df_params[param].apply(self.distr_dict[param].ppf)
ApplyPpf(df, dd) ==
    DataFrame([i \in 1..Len(df.rows) |->
                  [j \in 1..Len(df.columns) |->
                      ppf(DictGet(dd, df.columns[j]), df.rows[i][j])]],
              df.columns)

\* the sample make_sample stores
MakeSampleDf(uv, method, N) ==
    ApplyPpf(DataFrame(SalibSample(method, MakeProblem(param_labels(uv)), N),
                       param_labels(uv)),
             distr_dict(uv))

(* ------------------------------ UncImpact ------------------------------ *)

\* None, as _map_impact_eval returns it for a metric that is not requested
None == <<>>

\* rp=None stands for [5, 10, 20, 50, 100, 250]
DefaultRp == <<5, 10, 20, 50, 100, 250>>

\* the rp arguments calc_impact_distribution is called with
RpArgs == {None, <<10>>}

\* a metric column label: 'aai_agg', 'rp' + str(n), or the integer n that
\* pd.DataFrame(list_of_vectors) gives its n-th column
StrCol(name) == [t |-> name, n |-> 0]
RpCol(n) == [t |-> "rp", n |-> n]
IntCol(n) == [t |-> "int", n |-> n]

\* range(n) as pandas column labels
RangeCols(n) == [k \in 1..n |-> IntCol(k - 1)]

\* param_sample[1][labels].to_dict(): the row's values under these labels
RowDict(columns, row, labels) ==
    [i \in 1..Len(labels) |->
        [k |-> labels[i], v |-> row[IndexOf(columns, labels[i])]]]

\* the value a domain object echoes: the sum of its generator's arguments
ObjValue(obj) == SumSeq([i \in 1..Len(obj) |-> obj[i].v])

\* Impact().calc(exposures, impact_funcs, hazard): the synthetic impact
ImpactCalc(exp, impf, haz) ==
    LET a == ObjValue(exp) + 2 * ObjValue(impf) + 3 * ObjValue(haz)
    IN  [aai_agg  |-> a,
         eai_exp  |-> [k \in 1..NumExp |-> 10 * a + k],
         at_event |-> [e \in 1..NumEvents |-> 100 * a + e]]

\* imp.calc_freq_curve(rp).impact
FreqCurveImpact(imp, rpv) == [j \in 1..Len(rpv) |-> imp.aai_agg * rpv[j]]

\* UncImpact._map_impact_eval(param_sample), reading self.rp and the flags
map_impact_eval(uv, columns, row, rpv, ceai, cat) ==
    LET exp_params  == RowDict(columns, row, uv.exp.labels)
        haz_params  == RowDict(columns, row, uv.haz.labels)
        impf_params == RowDict(columns, row, uv.impf.labels)
        exp  == eval_unc_var(exp_params)
        haz  == eval_unc_var(haz_params)
        impf == eval_unc_var(impf_params)
        imp  == ImpactCalc(exp, impf, haz)
    IN  << imp.aai_agg,
           FreqCurveImpact(imp, rpv),
           IF ceai THEN imp.eai_exp ELSE None,
           IF cat THEN imp.at_event ELSE None >>

\* chunksize = min(self.n_runs // self.pool.ncpus, 100)
ChunkCap == 100

ChunkSize(nruns, ncpus) == Min(nruns \div ncpus, ChunkCap)

\* map(f, iterrows): the results in row order
SeqMap(results) == results

\* (mutant) the results in the order the workers finish
PoolMapByArrival(results, order) ==
    [i \in 1..Len(results) |-> results[order[i]]]

\* pool.map(f, iterrows): workers finish in the order `order`, the list
\* returned is in submission order
PoolMap(results, order) == [i \in 1..Len(results) |-> results[i]]

\* the orders in which the workers may finish n tasks
CompletionOrders(n) == {[i \in 1..n |-> i], [i \in 1..n |-> n + 1 - i]}

\* list(zip(*impact_metrics))[c]: the c-th entry of every row's result
Unzip(metrics, c) == [i \in 1..Len(metrics) |-> metrics[i][c]]

\* pd.DataFrame(list_of_scalars, columns=[name])
ScalarFrame(values, columns) ==
    DataFrame([i \in 1..Len(values) |-> <<values[i]>>], columns)

(* What calc_impact_distribution raises (NoErr when it runs through) for   *)
(* a call in which the evaluation of row fail_row raises (0: no row does). *)
CalcError(pl, p, fail_row) ==
    IF pl # NoPool /\ pl.forwards_kwds
    THEN Err("TypeError", "none", 0)        \* map() got 'chunsize'
    ELSE IF fail_row # 0
    THEN Err("RowError", "none", 0)         \* the cause, as raised
    ELSE IF n_runs(p) = 0
    THEN Err("ValueError", "none", 0)       \* not enough values to unpack
    ELSE NoErr

\* the per-row results the call collects
ImpactMetrics(uv, pl, p, rpv, ceai, cat, order) ==
    LET results == [i \in 1..n_runs(p) |->
                       map_impact_eval(uv, p.columns, p.rows[i], rpv, ceai, cat)]
    IN  IF pl # NoPool THEN PoolMap(results, order) ELSE SeqMap(results)

\* (mutant) the guard without its check of the sample
SensitivityGuardNoSampleCheck(p, at, aa) ==
    IF "aai_agg" \notin at
    THEN Err("AttributeError", "none", 0)
    ELSE IF DfEmpty(aa)
    THEN Err("ValueError", "calc_impact_distribution", 0)
    ELSE NoErr

(* What calc_impact_sensitivity raises before it analyses anything.        *)
SensitivityGuard(p, at, aa) ==
    IF DfEmpty(p)
    THEN Err("ValueError", "make_sample", 0)
    ELSE IF "aai_agg" \notin at
    THEN Err("AttributeError", "none", 0)
    ELSE IF DfEmpty(aa)
    THEN Err("ValueError", "calc_impact_distribution", 0)
    ELSE NoErr

\* SALib.analyze: the registered analyses
AnalysisMethods == {"sobol"}

\* sobol.analyze (calc_second_order=True, its default) rejects a Y whose
\* size is no multiple of 2D + 2
AnalyzeFails(prob, Y) == Len(Y) % (2 * prob.num_vars + 2) # 0

\* analysis_method.analyze(problem, Y): the index mapping,
\* which echoes what it was computed from
Analyze(prob, Y) == [names |-> prob.names, Y |-> Y]

\* Uncertainty._calc_metric_sensitivity(df_metric, analysis_method)
calc_metric_sensitivity(prob, df_metric) ==
    [j \in 1..Len(df_metric.columns) |->
        [k |-> df_metric.columns[j],
         v |-> Analyze(prob, Column(df_metric, df_metric.columns[j]))]]

\* some column of the table makes analyze raise
MetricFails(prob, df_metric) ==
    \E j \in 1..Len(df_metric.columns) :
        AnalyzeFails(prob, Column(df_metric, df_metric.columns[j]))

\* (mutant) the new entries merged into the result stored before
SensitivityAnalysisMerged(prob, aa, fc, ee, ae, ceai, cat) ==
    LET s1 == DictUpdate(sensitivity, calc_metric_sensitivity(prob, aa))
        s2 == DictUpdate(s1, calc_metric_sensitivity(prob, fc))
        s3 == IF ceai THEN DictUpdate(s2, calc_metric_sensitivity(prob, ee))
              ELSE s2
        s4 == IF cat THEN DictUpdate(s3, calc_metric_sensitivity(prob, ae))
              ELSE s3
    IN  s4

\* the dict calc_impact_sensitivity builds
SensitivityAnalysis(prob, aa, fc, ee, ae, ceai, cat) ==
    LET s1 == DictUpdate(<<>>, calc_metric_sensitivity(prob, aa))
        s2 == DictUpdate(s1, calc_metric_sensitivity(prob, fc))
        s3 == IF ceai THEN DictUpdate(s2, calc_metric_sensitivity(prob, ee))
              ELSE s2
        s4 == IF cat THEN DictUpdate(s3, calc_metric_sensitivity(prob, ae))
              ELSE s3
    IN  s4

\* analyze raises in one of the tables the call goes through
SensitivityFails(prob, aa, fc, ee, ae, ceai, cat) ==
    \/ MetricFails(prob, aa)
    \/ MetricFails(prob, fc)
    \/ ceai /\ MetricFails(prob, ee)
    \/ cat /\ MetricFails(prob, ae)

(* ------------------------------ DiscRates ------------------------------ *)

(* numpy arrays are objects: heap[a] is the content of the array with      *)
(* identity a. An attribute holds an identity, so that two objects may     *)
(* refer to one array and a write through one is seen through the other.   *)

\* the identities of the two arrays allocated next
NewYears == Len(heap) + 1
NewRates == Len(heap) + 2

\* np.array(values): the heap with one more array
Alloc(h, values) == Append(h, values)

\* the content of the years / rates of the object d
YearsOf(h, d) == h[d.years]
RatesOf(h, d) == h[d.rates]

\* the DiscRates objects a caller builds and passes: their years and rates
\* (rates in percent), one of them with one rate missing
Years == {2000, 2001, 2002}
Rates == {1, 2}
ArgLens == 0..2

DistinctSeqs(S, lens) ==
    UNION {{q \in [1..n -> S] : \A i, j \in 1..n : q[i] = q[j] => i = j} :
           n \in lens}

DiscArgs ==
    {[years |-> y, rates |-> r] :
        y \in DistinctSeqs(Years, ArgLens), r \in UNION {[1..n -> Rates] : n \in ArgLens}}

ValidDiscArgs == {a \in DiscArgs : Len(a.years) = Len(a.rates)}

InvalidDiscArgs == {[years |-> <<2000, 2001>>, rates |-> <<1>>]}

\* DiscRates.check: check.size(len(self.years), self.rates, ...) raises
CheckFails(yrs, rts) == Len(yrs) # Len(rts)

\* np.where(year == self.years)[0]: the positions of year, ascending
Found(yrs, year) == {i \in 1..Len(yrs) : yrs[i] = year}

FirstFound(yrs, year) ==
    CHOOSE i \in Found(yrs, year) : \A j \in Found(yrs, year) : i <= j

\* (mutant) the loop of append that keeps the rate of a year it finds
RECURSIVE AppendLoopKeep(_, _, _, _, _, _)
AppendLoopKeep(self_years, self_rates, oyears, orates, new_year, new_rate) ==
    IF oyears = <<>> \/ orates = <<>>
    THEN [rates |-> self_rates, new_year |-> new_year, new_rate |-> new_rate]
    ELSE IF Found(self_years, Head(oyears)) # {}
    THEN AppendLoopKeep(self_years, self_rates,
                        Tail(oyears), Tail(orates), new_year, new_rate)
    ELSE AppendLoopKeep(self_years, self_rates, Tail(oyears), Tail(orates),
                        Append(new_year, Head(oyears)),
                        Append(new_rate, Head(orates)))

\* for year, rate in zip(disc_rates.years, disc_rates.rates): the rate of a
\* year found in self.years is overwritten in self.rates, the others are
\* collected in new_year / new_rate
RECURSIVE AppendLoop(_, _, _, _, _, _)
AppendLoop(self_years, self_rates, oyears, orates, new_year, new_rate) ==
    IF oyears = <<>> \/ orates = <<>>
    THEN [rates |-> self_rates, new_year |-> new_year, new_rate |-> new_rate]
    ELSE IF Found(self_years, Head(oyears)) # {}
    THEN AppendLoop(self_years,
                    [self_rates EXCEPT ![FirstFound(self_years, Head(oyears))]
                                           = Head(orates)],
                    Tail(oyears), Tail(orates), new_year, new_rate)
    ELSE AppendLoop(self_years, self_rates, Tail(oyears), Tail(orates),
                    Append(new_year, Head(oyears)),
                    Append(new_rate, Head(orates)))

\* the record of the latest call on the DiscRates object: the operation,
\* whether it returned, the years and rates of the receiver before it and
\* those of the argument as it was passed
DiscCall(op, ok, before, arg) ==
    [op |-> op, ok |-> ok, before |-> before, arg |-> arg]

NoRates == [years |-> <<>>, rates |-> <<>>]

\* DiscRates(): clear() gives the object two new, empty arrays
InitDiscRates ==
    /\ heap = << <<>>, <<>> >>
    /\ disc_rates = [years |-> 1, rates |-> 2]
    /\ passed = <<>>
    /\ disc_last = DiscCall("init", TRUE, NoRates, NoRates)
    /\ disc_ncalls = 0

\* DiscRates.clear(): years and rates become two new, empty arrays
clear ==
    /\ disc_ncalls' = disc_ncalls + 1
    /\ heap' = Alloc(Alloc(heap, <<>>), <<>>)
    /\ disc_rates' = [years |-> NewYears, rates |-> NewRates]
    /\ disc_last' = DiscCall("clear", TRUE,
                             [years |-> YearsOf(heap, disc_rates),
                              rates |-> RatesOf(heap, disc_rates)], NoRates)
    /\ UNCHANGED passed

\* DiscRates.check(): raises when years and rates differ in length
check ==
    /\ disc_ncalls' = disc_ncalls + 1
    /\ disc_last' = DiscCall("check",
                             ~CheckFails(YearsOf(heap, disc_rates),
                                         RatesOf(heap, disc_rates)),
                             [years |-> YearsOf(heap, disc_rates),
                              rates |-> RatesOf(heap, disc_rates)], NoRates)
    /\ UNCHANGED <<heap, disc_rates, passed>>

\* self.append(disc_rates), the argument being a new DiscRates object whose
\* years and rates were set to arg.years and arg.rates
append(arg) ==
    LET h0 == Alloc(Alloc(heap, arg.years), arg.rates)
        other == [years |-> NewYears, rates |-> NewRates]
        before == [years |-> YearsOf(heap, disc_rates),
                   rates |-> RatesOf(heap, disc_rates)]
        loop == AppendLoop(before.years, before.rates, arg.years, arg.rates,
                           <<>>, <<>>)
        \* self.rates[found[0]] = rate writes into the array itself
        h1 == [h0 EXCEPT ![disc_rates.rates] = loop.rates]
        \* np.append returns a new array
        h2 == Alloc(Alloc(h1, YearsOf(h1, disc_rates) \o loop.new_year),
                    RatesOf(h1, disc_rates) \o loop.new_rate)
    IN
    /\ disc_ncalls' = disc_ncalls + 1
    /\ passed' = Append(passed, [years |-> other.years, rates |-> other.rates,
                                 years0 |-> arg.years, rates0 |-> arg.rates])
    /\ IF CheckFails(arg.years, arg.rates)
       THEN \* disc_rates.check() raises ValueError
            /\ heap' = h0
            /\ disc_rates' = disc_rates
            /\ disc_last' = DiscCall("append", FALSE, before, arg)
       ELSE IF Len(before.years) = 0
       THEN \* self.__dict__ = disc_rates.__dict__.copy()
            /\ heap' = h0
            /\ disc_rates' = other
            /\ disc_last' = DiscCall("append", TRUE, before, arg)
       ELSE /\ heap' = h2
            /\ disc_rates' = [years |-> Len(h1) + 1, rates |-> Len(h1) + 2]
            /\ disc_last' = DiscCall("append", TRUE, before, arg)

(* ------------------------------- the object ---------------------------- *)

\* the attributes that __init__ does not set and a later call creates
LateAttrs == {"aai_agg", "rp", "calc_eai_exp", "calc_at_event", "sensitivity",
              "sampling_method", "n_samples"}

\* the record of the latest call: the operation, whether it returned, what
\* it raised, and the row whose evaluation was made to raise (0: none)
Call(op, err, fail_row) ==
    [op |-> op, ok |-> (err = NoErr), err |-> err, fail_row |-> fail_row]

\* the chunk size of a call for n rows on a pool of c cpus, before and
\* after it is computed
ChunkInput(n, c) == [n_runs |-> n, ncpus |-> c, done |-> FALSE, chunksize |-> 0]

\* UncImpact.__init__(exp_unc, impf_unc, haz_unc, pool)
InitUncImpact ==
    /\ unc_vars \in UncVarSets
    /\ pool \in Pools
    /\ params = EmptyDataFrame
    /\ problem = EmptyProblem
    /\ aai = EmptyDataFrame
    /\ freq_curve = EmptyDataFrame
    /\ eai_exp = EmptyDataFrame
    /\ at_event = EmptyDataFrame
    /\ attrs = {}
    \* not attributes yet: the values below are read only once in attrs
    /\ aai_agg = EmptyDataFrame
    /\ rp = <<>>
    /\ calc_eai_exp = FALSE
    /\ calc_at_event = FALSE
    /\ sensitivity = <<>>
    /\ sampling_method = ""
    /\ n_samples = 0
    \* history: the latest call, which calls have succeeded so far, and the
    \* keys of the sensitivity result that the latest analysis replaced
    /\ last = Call("init", NoErr, 0)
    /\ hist = [sampled |-> FALSE, calc_after_sample |-> FALSE, prev_keys |-> {}]
    /\ ncalls = 0

\* the objects after construction, no call being in progress
Init ==
    /\ InitUncImpact
    /\ InitDiscRates
    /\ chunk = ChunkInput(0, 0)

\* Uncertainty.make_sample(N, sampling_method)
make_sample(N, method) ==
    /\ ncalls' = ncalls + 1
    /\ sampling_method' = method
    /\ n_samples' = N
    /\ attrs' = attrs \cup {"sampling_method", "n_samples"}
    /\ problem' = MakeProblem(param_labels(unc_vars))
    /\ IF method \in SamplingMethods
       THEN /\ params' = MakeSampleDf(unc_vars, method, N)
            /\ last' = Call("make_sample", NoErr, 0)
            /\ hist' = [hist EXCEPT !.sampled = TRUE]
       ELSE \* getattr(sas, method) raises
            /\ params' = params
            /\ last' = Call("make_sample", Err("AttributeError", "none", 0), 0)
            /\ hist' = hist
    /\ UNCHANGED <<unc_vars, pool, aai, aai_agg, freq_curve, eai_exp, at_event,
                   rp, calc_eai_exp, calc_at_event, sensitivity>>

\* UncImpact.calc_impact_distribution(rp, calc_eai_exp, calc_at_event), with
\* the evaluation of row fail_row raising and the workers finishing in order
calc_impact_distribution(rparg, ceai, cat, fail_row, order) ==
    LET rpv == IF rparg = None THEN DefaultRp ELSE rparg
        err == CalcError(pool, params, fail_row)
        metrics == ImpactMetrics(unc_vars, pool, params, rpv, ceai, cat, order)
    IN
    /\ ncalls' = ncalls + 1
    /\ rp' = rpv
    /\ calc_eai_exp' = ceai
    /\ calc_at_event' = cat
    /\ last' = Call("calc_impact_distribution", err, fail_row)
    /\ IF err = NoErr
       THEN /\ aai_agg' = ScalarFrame(Unzip(metrics, 1), <<StrCol("aai_agg")>>)
            /\ freq_curve' = DataFrame(Unzip(metrics, 2),
                                       [j \in 1..Len(rpv) |-> RpCol(rpv[j])])
            /\ eai_exp' = IF ceai
                          THEN DataFrame(Unzip(metrics, 3), RangeCols(NumExp))
                          ELSE eai_exp
            /\ at_event' = IF cat
                           THEN DataFrame(Unzip(metrics, 4), RangeCols(NumEvents))
                           ELSE at_event
            /\ attrs' = attrs \cup {"rp", "calc_eai_exp", "calc_at_event", "aai_agg"}
            /\ hist' = [hist EXCEPT !.calc_after_sample = hist.sampled]
       ELSE /\ attrs' = attrs \cup {"rp", "calc_eai_exp", "calc_at_event"}
            /\ UNCHANGED <<aai_agg, freq_curve, eai_exp, at_event, hist>>
    /\ UNCHANGED <<unc_vars, pool, params, problem, aai, sensitivity,
                   sampling_method, n_samples>>

\* UncImpact.calc_impact_sensitivity(method)
calc_impact_sensitivity(method) ==
    LET guard == SensitivityGuard(params, attrs, aai_agg)
        err == IF guard # NoErr THEN guard
               ELSE IF method \notin AnalysisMethods
               THEN Err("AttributeError", "none", 0)    \* getattr(saa, method)
               ELSE IF SensitivityFails(problem, aai_agg, freq_curve, eai_exp,
                                        at_event, calc_eai_exp, calc_at_event)
               THEN Err("RuntimeError", "none", 0)      \* raised by analyze
               ELSE NoErr
    IN
    /\ ncalls' = ncalls + 1
    /\ last' = Call("calc_impact_sensitivity", err, 0)
    /\ IF err = NoErr
       THEN /\ sensitivity' = SensitivityAnalysis(problem, aai_agg, freq_curve,
                                                  eai_exp, at_event, calc_eai_exp,
                                                  calc_at_event)
            /\ attrs' = attrs \cup {"sensitivity"}
            /\ hist' = [hist EXCEPT !.prev_keys = Range(DictKeys(sensitivity))]
       ELSE UNCHANGED <<sensitivity, attrs, hist>>
    /\ UNCHANGED <<unc_vars, pool, params, problem, aai, aai_agg, freq_curve,
                   eai_exp, at_event, rp, calc_eai_exp, calc_at_event,
                   sampling_method, n_samples>>

(* ---------------------------- specification ---------------------------- *)

\* the method names a caller passes: the registered ones and one that is not
SamplingNames == SamplingMethods \cup {"bogus"}
AnalysisNames == AnalysisMethods \cup {"bogus"}

\* the row whose evaluation a call is made to fail at: none, or the last one
FailRows(n) == {0, n}

MakeSample ==
    /\ UNCHANGED <<disc_vars, chunk>>
    /\ ncalls < MaxCalls
    /\ \E N \in 1..MaxN, method \in SamplingNames : make_sample(N, method)

CalcImpactDistribution ==
    /\ UNCHANGED <<disc_vars, chunk>>
    /\ ncalls < MaxCalls
    /\ \E rparg \in RpArgs, ceai \in BOOLEAN, cat \in BOOLEAN,
          fail_row \in FailRows(n_runs(params)),
          order \in (IF pool = NoPool THEN {[i \in 1..n_runs(params) |-> i]}
                     ELSE CompletionOrders(n_runs(params))) :
           calc_impact_distribution(rparg, ceai, cat, fail_row, order)

CalcImpactSensitivity ==
    /\ UNCHANGED <<disc_vars, chunk>>
    /\ ncalls < MaxCalls
    /\ \E method \in AnalysisNames : calc_impact_sensitivity(method)

Next == MakeSample \/ CalcImpactDistribution \/ CalcImpactSensitivity

Spec == Init /\ [][Next]_vars

(* A longer session in which every method name is registered and the       *)
(* sample has one size: the metrics are computed and analysed repeatedly,  *)
(* with different return periods and optional metrics from run to run.     *)

\* largest number of calls made in such a session
MaxRerunCalls == 5

RerunMakeSample ==
    /\ UNCHANGED <<disc_vars, chunk>>
    /\ ncalls < MaxRerunCalls
    /\ \E method \in SamplingMethods : make_sample(1, method)

RerunCalcImpactDistribution ==
    /\ UNCHANGED <<disc_vars, chunk>>
    /\ ncalls < MaxRerunCalls
    /\ \E rparg \in RpArgs, ceai \in BOOLEAN, cat \in BOOLEAN,
          fail_row \in FailRows(n_runs(params)) :
           calc_impact_distribution(rparg, ceai, cat, fail_row,
                                    [i \in 1..n_runs(params) |-> i])

RerunCalcImpactSensitivity ==
    /\ UNCHANGED <<disc_vars, chunk>>
    /\ ncalls < MaxRerunCalls
    /\ \E method \in AnalysisMethods : calc_impact_sensitivity(method)

NextRerun ==
    RerunMakeSample \/ RerunCalcImpactDistribution \/ RerunCalcImpactSensitivity

SpecRerun == Init /\ [][NextRerun]_vars

(* The DiscRates object under append, clear and check calls.               *)

\* largest number of calls made on the object
MaxDiscCalls == 2

AppendValid ==
    /\ disc_ncalls < MaxDiscCalls
    /\ \E arg \in ValidDiscArgs : append(arg)
    /\ UNCHANGED <<impact_vars, chunk>>

AppendInvalid ==
    /\ disc_ncalls < MaxDiscCalls
    /\ \E arg \in InvalidDiscArgs : append(arg)
    /\ UNCHANGED <<impact_vars, chunk>>

Clear ==
    /\ disc_ncalls < MaxDiscCalls
    /\ clear
    /\ UNCHANGED <<impact_vars, chunk>>

Check ==
    /\ disc_ncalls < MaxDiscCalls
    /\ check
    /\ UNCHANGED <<impact_vars, chunk>>

NextDisc == AppendValid \/ AppendInvalid \/ Clear \/ Check

SpecDisc == Init /\ [][NextDisc]_vars

(* The chunk size calc_impact_distribution computes, for any sample size   *)
(* and any pool size.                                                      *)

\* largest number of sample rows and of pool cpus
MaxRuns == 210
MaxCpus == 3

InitChunk ==
    /\ InitUncImpact
    /\ InitDiscRates
    /\ chunk \in {ChunkInput(n, c) : n \in 1..MaxRuns, c \in 1..MaxCpus}

\* chunksize = min(self.n_runs // self.pool.ncpus, 100)
ComputeChunkSize ==
    /\ ~chunk.done
    /\ chunk' = [chunk EXCEPT !.done = TRUE,
                              !.chunksize = ChunkSize(chunk.n_runs, chunk.ncpus)]
    /\ UNCHANGED <<impact_vars, disc_vars>>

NextChunk == ComputeChunkSize

SpecChunk == InitChunk /\ [][NextChunk]_vars

(* ------------------------------- claims -------------------------------- *)

IsCalc == last.op = "calc_impact_distribution"
IsSens == last.op = "calc_impact_sensitivity"
IsSample == last.op = "make_sample"

\* what the echoing generators of a role return for a sample row, read off
\* the row by column label
RECURSIVE EchoSum(_, _, _)
EchoSum(labels, columns, row) ==
    IF labels = <<>> THEN 0
    ELSE row[CHOOSE j \in 1..Len(columns) : columns[j] = Head(labels)]
         + EchoSum(Tail(labels), columns, row)

\* the aggregate impact of sample row i
ExpectedAai(i) ==
    EchoSum(unc_vars.exp.labels, params.columns, params.rows[i])
    + 2 * EchoSum(unc_vars.impf.labels, params.columns, params.rows[i])
    + 3 * EchoSum(unc_vars.haz.labels, params.columns, params.rows[i])

\* the metric tables of the current sample, row by row
AaiAggAligned ==
    /\ Len(aai_agg.rows) = Len(params.rows)
    /\ \A i \in 1..Len(params.rows) : aai_agg.rows[i] = <<ExpectedAai(i)>>
FreqCurveAligned ==
    /\ Len(freq_curve.rows) = Len(params.rows)
    /\ \A i \in 1..Len(params.rows) :
          freq_curve.rows[i] = [j \in 1..Len(rp) |-> ExpectedAai(i) * rp[j]]
EaiExpAligned ==
    /\ Len(eai_exp.rows) = Len(params.rows)
    /\ \A i \in 1..Len(params.rows) :
          eai_exp.rows[i] = [k \in 1..NumExp |-> 10 * ExpectedAai(i) + k]
AtEventAligned ==
    /\ Len(at_event.rows) = Len(params.rows)
    /\ \A i \in 1..Len(params.rows) :
          at_event.rows[i] = [e \in 1..NumEvents |-> 100 * ExpectedAai(i) + e]

\* C1: after a successful calc_impact_distribution, row i of aai_agg and of
\* freq_curve (and of eai_exp / at_event when requested) holds the metrics of
\* sample row i, for every i.
C1_RowAlignment ==
    (IsCalc /\ last.ok) =>
        /\ AaiAggAligned
        /\ FreqCurveAligned
        /\ (calc_eai_exp => EaiExpAligned)
        /\ (calc_at_event => AtEventAligned)

\* a pool run over several rows with both optional metrics has succeeded
C1_Witness ==
    /\ IsCalc /\ last.ok
    /\ pool # NoPool
    /\ Len(params.rows) > 1
    /\ calc_eai_exp /\ calc_at_event

\* the metric tables the object holds
MetricTables ==
    (IF "aai_agg" \in attrs THEN {aai_agg} ELSE {})
    \cup {freq_curve, eai_exp, at_event}

\* C2: in every reachable state every non-empty metric table has as many rows
\* as the current sample (n_runs).
C2_RowCountInvariant ==
    \A t \in MetricTables : ~DfEmpty(t) => Shape0(t) = n_runs(params)

\* C3: calc_impact_sensitivity after a successful make_sample and before any
\* calc_impact_distribution fails with the ValueError that names
\* calc_impact_distribution, and stores no sensitivity result.
C3_MissingMetricsError ==
    (IsSens /\ hist.sampled /\ "rp" \notin attrs) =>
        /\ last.err = Err("ValueError", "calc_impact_distribution", 0)
        /\ "sensitivity" \notin attrs

\* C4: calc_impact_sensitivity returns a result only after a successful
\* make_sample followed by a successful calc_impact_distribution; with no
\* sample built it fails with the ValueError that names make_sample.
C4_PipelineOrder ==
    /\ (IsSens /\ last.ok) => hist.calc_after_sample
    /\ (IsSens /\ ~hist.sampled) => last.err = Err("ValueError", "make_sample", 0)

\* a sensitivity analysis has returned its result
C4_Witness == IsSens /\ last.ok /\ "sensitivity" \in attrs

\* C5: calc_impact_distribution on an object whose sample was never built
\* fails with an error that names make_sample (and changes no metric table).
C5_MissingSampleError ==
    (IsCalc /\ ~hist.sampled) =>
        /\ ~last.ok
        /\ last.err.names = "make_sample"
        /\ freq_curve = EmptyDataFrame /\ eai_exp = EmptyDataFrame
        /\ at_event = EmptyDataFrame /\ "aai_agg" \notin attrs

\* C6: when the evaluation of one sample row raises, calc_impact_distribution
\* raises an error that carries that row's index, and assigns no metric table.
C6_RowFailureCarriesIndex ==
    [][ (IsCalc' /\ last'.fail_row # 0 /\ ~(pool # NoPool /\ pool.forwards_kwds)) =>
            /\ ~last'.ok
            /\ last'.err.row = last'.fail_row
            /\ UNCHANGED <<aai_agg, freq_curve, eai_exp, at_event>> ]_vars

\* C7: after a successful calc_impact_distribution an optional metric that the
\* call did not request is empty ("not computed").
C7_UnrequestedNotComputed ==
    (IsCalc /\ last.ok) =>
        /\ (~calc_eai_exp => DfEmpty(eai_exp))
        /\ (~calc_at_event => DfEmpty(at_event))

\* C8: the result of calc_impact_sensitivity has one entry per column of every
\* requested metric table: as many entries as these tables have columns.
C8_OneEntryPerColumn ==
    (IsSens /\ last.ok) =>
        Len(sensitivity) =
            Len(aai_agg.columns) + Len(freq_curve.columns)
            + (IF calc_eai_exp THEN Len(eai_exp.columns) ELSE 0)
            + (IF calc_at_event THEN Len(at_event.columns) ELSE 0)

\* C9: with a worker pool, calc_impact_distribution over a non-empty sample
\* whose rows all evaluate completes, with the tables of the sequential run.
C9_PoolEqualsSequential ==
    (IsCalc /\ pool # NoPool /\ last.fail_row = 0 /\ n_runs(params) > 0) =>
        /\ last.ok
        /\ AaiAggAligned /\ FreqCurveAligned
        /\ (calc_eai_exp => EaiExpAligned)
        /\ (calc_at_event => AtEventAligned)

\* the labels of exp, then of impf, then of haz, each label once
RECURSIVE FirstOccurrences(_, _)
FirstOccurrences(seen, labels) ==
    IF labels = <<>> THEN seen
    ELSE FirstOccurrences(IF Head(labels) \in Range(seen) THEN seen
                          ELSE Append(seen, Head(labels)),
                          Tail(labels))

RoleLabelOrder ==
    FirstOccurrences(<<>>, unc_vars.exp.labels \o unc_vars.impf.labels
                           \o unc_vars.haz.labels)

\* C10: a successful make_sample(N, method) stores one column per label, in
\* the order exposure, impact-function, hazard labels, and as many rows as
\* the design returned; n_runs is that row count.
C10_SampleShape ==
    (IsSample /\ last.ok) =>
        /\ params.columns = RoleLabelOrder
        /\ \A i, j \in 1..Len(params.columns) :
              params.columns[i] = params.columns[j] => i = j
        /\ Len(params.rows) = Len(SalibSample(sampling_method, problem, n_samples))
        /\ Len(params.rows) = n_samples * (2 * Len(RoleLabelOrder) + 2)
        /\ \A i \in 1..Len(params.rows) :
              Len(params.rows[i]) = Len(params.columns)
        /\ n_runs(params) = Len(params.rows)

\* a sample with a shared label and several rows has been stored
C10_Witness ==
    /\ IsSample /\ last.ok
    /\ Len(params.columns) < Len(unc_vars.exp.labels) + Len(unc_vars.impf.labels)
                             + Len(unc_vars.haz.labels)
    /\ n_samples > 1

\* C11: make_sample with a sampling method that is not registered, and
\* calc_impact_sensitivity (on a sample with metrics) with an analysis method
\* that is not registered, fail with UnsupportedMethod and leave the stored
\* sample, problem descriptor and sensitivity result unchanged.
C11_UnsupportedMethod ==
    [][ /\ (IsSample' /\ sampling_method' \notin SamplingMethods) =>
              /\ last'.err.type = "UnsupportedMethod"
              /\ UNCHANGED <<params, problem, sensitivity>>
        /\ ( /\ SensitivityGuard(params, attrs, aai_agg) = NoErr
             /\ \E method \in AnalysisNames \ AnalysisMethods :
                   calc_impact_sensitivity(method) ) =>
              /\ last'.err.type = "UnsupportedMethod"
              /\ UNCHANGED <<params, problem, sensitivity>> ]_vars

\* the metric tables calc_impact_sensitivity goes through
RequestedTables ==
    {aai_agg, freq_curve}
    \cup (IF calc_eai_exp THEN {eai_exp} ELSE {})
    \cup (IF calc_at_event THEN {at_event} ELSE {})

\* C12: after a successful calc_impact_sensitivity the stored result has
\* exactly the column labels of the currently requested metric tables as its
\* keys, each once, and every entry is the analysis of such a column: nothing
\* of an earlier result survives.
C12_FullyRecomputed ==
    (IsSens /\ last.ok) =>
        /\ Range(DictKeys(sensitivity)) =
              UNION {Range(t.columns) : t \in RequestedTables}
        /\ \A i, j \in 1..Len(sensitivity) :
              sensitivity[i].k = sensitivity[j].k => i = j
        /\ \A i \in 1..Len(sensitivity) :
              \E t \in RequestedTables :
                 /\ sensitivity[i].k \in Range(t.columns)
                 /\ sensitivity[i].v = Analyze(problem, Column(t, sensitivity[i].k))

\* an analysis has replaced a result that had keys which are no longer
\* requested
C12_Witness ==
    /\ IsSens /\ last.ok
    /\ hist.prev_keys \ Range(DictKeys(sensitivity)) # {}

IsAppend == disc_last.op = "append"

\* the years of the argument that the receiver did not have, in the
\* argument's order, and their rates
NewOf(before, arg) ==
    LET idx == SelectSeq([j \in 1..Len(arg.years) |-> j],
                         LAMBDA j : arg.years[j] \notin Range(before.years))
    IN  [years |-> [n \in 1..Len(idx) |-> arg.years[idx[n]]],
         rates |-> [n \in 1..Len(idx) |-> arg.rates[idx[n]]]]

\* C13: after append(other) on a receiver with at least one year, every year
\* of other is in the receiver with other's rate; a year the receiver had is
\* overwritten in place or keeps its rate, and keeps its position; the new
\* years follow at the end; years and rates have the same length.
C13_AppendSemantic ==
    (IsAppend /\ disc_last.ok /\ Len(disc_last.before.years) > 0) =>
        LET b == disc_last.before
            o == disc_last.arg
            ys == YearsOf(heap, disc_rates)
            rs == RatesOf(heap, disc_rates)
            new == NewOf(b, o)
        IN  /\ Len(ys) = Len(rs)
            /\ \A j \in 1..Len(o.years) :
                  \E i \in 1..Len(ys) : ys[i] = o.years[j] /\ rs[i] = o.rates[j]
            /\ \A i \in 1..Len(b.years) :
                  /\ ys[i] = b.years[i]
                  /\ b.years[i] \notin Range(o.years) => rs[i] = b.rates[i]
                  /\ \A j \in 1..Len(o.years) :
                        o.years[j] = b.years[i] => rs[i] = o.rates[j]
            /\ ys = b.years \o new.years
            /\ rs = [i \in 1..Len(b.years) |-> rs[i]] \o new.rates

\* an append has overwritten the rate of a year, kept another and added a
\* new year
C13_Witness ==
    /\ IsAppend /\ disc_last.ok
    /\ \E i \in 1..Len(disc_last.before.years) :
          /\ disc_last.before.years[i] \in Range(disc_last.arg.years)
          /\ RatesOf(heap, disc_rates)[i] # disc_last.before.rates[i]
    /\ \E i \in 1..Len(disc_last.before.years) :
          disc_last.before.years[i] \notin Range(disc_last.arg.years)
    /\ Len(YearsOf(heap, disc_rates)) > Len(disc_last.before.years)

Roles == {"exp", "impf", "haz"}

\* the parameter names that two role variables declare
SharedLabels ==
    {l \in Range(RoleLabelOrder) :
        \E r1, r2 \in Roles : /\ r1 # r2
                               /\ l \in Range(unc_vars[r1].labels)
                               /\ l \in Range(unc_vars[r2].labels)}

\* the keyword arguments the generator of a role is called with for row i
Received(role, i) ==
    eval_unc_var(RowDict(params.columns, params.rows[i], unc_vars[role].labels))

\* C14: a parameter name declared by two role variables is once in
\* param_labels and is one column of the sample; in every row each of the
\* variables that declare it is evaluated with that row's value of the column,
\* and the metrics of an evaluated row are those of these values.
C14_SharedParameter ==
    \A l \in SharedLabels :
        /\ Cardinality({j \in 1..Len(param_labels(unc_vars)) :
                           param_labels(unc_vars)[j] = l}) = 1
        /\ (IsSample /\ last.ok) \/ (IsCalc /\ last.ok) =>
              /\ Cardinality({j \in 1..Len(params.columns) :
                                 params.columns[j] = l}) = 1
              /\ \A i \in 1..Len(params.rows) :
                    \A role \in Roles :
                       l \in Range(unc_vars[role].labels) =>
                          \E j \in 1..Len(params.columns) :
                             /\ params.columns[j] = l
                             /\ DictGet(Received(role, i), l) = params.rows[i][j]
        /\ (IsCalc /\ last.ok) =>
              \A i \in 1..Len(params.rows) :
                 aai_agg.rows[i][1] = ObjValue(Received("exp", i))
                                      + 2 * ObjValue(Received("impf", i))
                                      + 3 * ObjValue(Received("haz", i))

\* the rows of a sample with a shared parameter have been evaluated
C14_Witness ==
    /\ IsCalc /\ last.ok
    /\ SharedLabels # {}
    /\ Len(params.rows) > 1

\* C15: for every n_runs >= 1 and every ncpus >= 1 the chunk size computed is
\* between 1 and 100.
C15_ChunkSizeRange ==
    (chunk.done /\ chunk.n_runs >= 1 /\ chunk.ncpus >= 1) =>
        chunk.chunksize \in 1..ChunkCap

\* C16: a calc_impact_distribution call that raises leaves rp, the
\* calc_eai_exp and calc_at_event flags and all metric tables (and which of
\* them exist as attributes) as they were before the call.
C16_FailedCalcChangesNothing ==
    [][ (IsCalc' /\ ~last'.ok) =>
            UNCHANGED <<rp, calc_eai_exp, calc_at_event, attrs,
                        aai_agg, freq_curve, eai_exp, at_event>> ]_vars

\* C17: after any sequence of append calls (and clear or check calls between
\* them) on a receiver that started empty, every object that was passed as an argument has the years and rates it
\* had when it was passed.
C17_ArgumentUnchanged ==
    \A k \in 1..Len(passed) :
        /\ YearsOf(heap, passed[k]) = passed[k].years0
        /\ RatesOf(heap, passed[k]) = passed[k].rates0

====
